---- MODULE Spec2Model ----
(***************************************************************************)
(* Model of src/weater_monitor.py: the WeatherMonitor scheduler (run), its *)
(* two handlers (_handle_daily_push, _handle_rain_alert), the retrying     *)
(* fetch and push, and the supervisor loop of main().                      *)
(*                                                                         *)
(* Time is counted in seconds of UTC+8 wall-clock since 00:00:00 of date 0.*)
(* Condition texts are sequences of characters, each character written as *)
(* its pinyin ("zhong","yu" is the two-character text for moderate rain).  *)
(***************************************************************************)
EXTENDS Integers, Sequences, FiniteSets, TLC

\* ------------------------------------------------------------------ bounds
\* Ticks of run() one process makes before the model stops it.
MaxTicks == 5
\* WeatherMonitor() constructions one process makes before the model stops it.
MaxStarts == 3
\* Ticks the harness of one instance makes at freely chosen times.
MaxHarnessTicks == 4
\* Largest check_interval_minutes of the sleep-computation specification.
MaxInterval == 20
\* Longest run of consecutive qualifying rain checks that is counted.
MaxRun == 4

\* ------------------------------------------------------- program constants
\* max_retry of _request_with_retry and push_to_feishu.
MaxRetry == 5
\* time.sleep(5) of main() before it builds the next WeatherMonitor.
RestartDelay == 5
\* timedelta(hours=6) of get_hourly_weather.
WindowHours == 6
\* self.last_daily_push_date = None
NoDate == -1

\* ------------------------------------------------------------ wall clock
\* now.strftime("%Y-%m-%d"): the calendar date, one string per date.
DateOf(t) == t \div 86400
\* now.hour
HourOf(t) == (t % 86400) \div 3600
\* now.minute
MinuteOf(t) == (t % 3600) \div 60
\* now.second
SecondOf(t) == t % 60
\* The index of the wall-clock minute t lies in.
MinuteIndex(t) == t \div 60
\* The time of day h:m:s of date d.
At(d, h, m, s) == d * 86400 + h * 3600 + m * 60 + s

\* ---------------------------------------------------------------- config
\* What config.ini holds. status "ok": every option present and well typed;
\* "missing_option": a section or option is absent (configparser.get raises
\* NoSectionError / NoOptionError, both configparser.Error);
\* "bad_int": an option read with getint holds a non-integer (int() raises
\* ValueError, which is no configparser.Error).
ConfigStatus == {"ok", "missing_option", "bad_int"}
MkConfig(st, h, m, c) ==
    [status |-> st, daily_push_hour |-> h, daily_push_minute |-> m,
     check_interval_minutes |-> c]
Configs ==
    { MkConfig("ok", 0, 0, 1), MkConfig("ok", 0, 0, 30), MkConfig("ok", 0, 15, 30),
      MkConfig("missing_option", 0, 0, 30), MkConfig("bad_int", 0, 0, 30) }
\* The outcome of WeatherMonitor.__init__ / _load_config on a config file.
LoadConfig(c) ==
    CASE c.status = "ok" -> "loaded"
      [] c.status = "missing_option" -> "configparser.Error"
      [] c.status = "bad_int" -> "ValueError"

\* --------------------------------------------------------------- texts
\* any(k in text for k in keywords): substring search.
Contains(k, t) ==
    \E i \in 1..(Len(t) - Len(k) + 1) : SubSeq(t, i, i + Len(k) - 1) = k
ContainsAny(ks, t) == \E k \in ks : Contains(k, t)
\* severe_rain_keywords of _handle_rain_alert.
SevereRainKeywords ==
    { <<"zhong", "yu">>, <<"da", "yu">>, <<"bao", "yu">>,
      <<"ji", "duan", "jiang", "yu">> }

\* ------------------------------------------------------- retrying GET
\* What one session.get attempt gives: a transport error or a non-2xx status
\* (raise_for_status), both requests.exceptions.RequestException; or a 2xx
\* response whose JSON body carries the provider code "200" or another code.
RequestExceptions == {"transport_error", "http_error"}
GetOutcomes == RequestExceptions \cup {"code_200", "code_other"}
\* A script says what the 1st..MaxRetry-th GET attempt of one call would give.
GetScripts == [1..MaxRetry -> GetOutcomes]
\* _request_with_retry from attempt number `attempt` on: the first response
\* that raises nothing is returned as it is; None after MaxRetry failures.
RECURSIVE RetryFrom(_, _)
RetryFrom(script, attempt) ==
    IF attempt > MaxRetry
    THEN [resp |-> "None", attempts |-> MaxRetry]
    ELSE IF script[attempt] \in RequestExceptions
         THEN RetryFrom(script, attempt + 1)
         ELSE [resp |-> script[attempt], attempts |-> attempt]
RequestWithRetry(script) == RetryFrom(script, 1)

\* get_daily_weather: ok = FALSE is the None it returns on failure; data is
\* resp.get("daily", []), here the provider's daily list `payload`.
GetDailyWeather(script, payload) ==
    LET r == RequestWithRetry(script) IN
    IF r.resp # "code_200"
    THEN [ok |-> FALSE, data |-> <<>>, attempts |-> r.attempts]
    ELSE [ok |-> TRUE, data |-> payload, attempts |-> r.attempts]

\* ------------------------------------------------------ hourly forecast
\* One item of the provider's "hourly" list. hasTime = FALSE: no "fxTime"
\* key. fxTime is the wall-clock reading `local` at UTC offset `off` hours.
\* popOK = FALSE: "pop" is no integer literal.
MkHourly(hasTime, local, off, text, popOK, pop) ==
    [hasTime |-> hasTime, local |-> local, off |-> off, text |-> text,
     popOK |-> popOK, pop |-> pop]
\* fromisoformat(...).astimezone(UTC+8): the same instant read on the UTC+8 clock.
FxTime(item) == item.local + (8 - item.off) * 3600
\* fx_time.strftime('%H:%M')
TimeLabel(t) == <<HourOf(t), MinuteOf(t)>>
\* now <= fx_time <= next_6_hours
InWindow(item, nowh) ==
    /\ nowh <= FxTime(item)
    /\ FxTime(item) <= nowh + WindowHours * 3600
\* The loop of get_hourly_weather raises when an item has no fxTime (KeyError)
\* or an item inside the window has a non-integer pop (ValueError).
HourlyRaises(payload, nowh) ==
    \E i \in 1..Len(payload) :
        \/ ~payload[i].hasTime
        \/ InWindow(payload[i], nowh) /\ ~payload[i].popOK
HourlyRecord(item) ==
    [time |-> TimeLabel(FxTime(item)), text |-> item.text, pop |-> item.pop]
\* The list get_hourly_weather builds from a well-formed "hourly" list.
FilterHourly(payload, nowh) ==
    LET Keep(item) == InWindow(item, nowh)
        kept == SelectSeq(payload, Keep)
    IN  [i \in 1..Len(kept) |-> HourlyRecord(kept[i])]
\* get_hourly_weather, nowh the time it reads after the request.
GetHourlyWeather(script, payload, nowh) ==
    LET r == RequestWithRetry(script) IN
    IF r.resp # "code_200"
    THEN [raised |-> FALSE, fetched |-> FALSE, list |-> <<>>, attempts |-> r.attempts]
    ELSE IF HourlyRaises(payload, nowh)
         THEN [raised |-> TRUE, fetched |-> TRUE, list |-> <<>>, attempts |-> r.attempts]
         ELSE [raised |-> FALSE, fetched |-> TRUE,
               list |-> FilterHourly(payload, nowh), attempts |-> r.attempts]

\* ------------------------------------------------------------- webhook
\* What one session.post attempt gives: a RequestException; a 2xx JSON object
\* with StatusCode/code equal to 0 or not; or a 2xx JSON body that is no
\* object, on which resp_json.get raises AttributeError.
PostOutcomes == RequestExceptions \cup {"status_zero", "status_nonzero", "bad_body"}
PostScripts == [1..MaxRetry -> PostOutcomes]
\* The loop giving up at the first response with a non-zero status field.
RECURSIVE PushFromGivesUpOnNonzero(_, _)
PushFromGivesUpOnNonzero(script, attempt) ==
    IF attempt > MaxRetry
    THEN [ret |-> FALSE, raised |-> FALSE, attempts |-> MaxRetry]
    ELSE CASE script[attempt] = "status_zero" ->
                [ret |-> TRUE, raised |-> FALSE, attempts |-> attempt]
           [] script[attempt] = "bad_body" ->
                [ret |-> FALSE, raised |-> TRUE, attempts |-> attempt]
           [] script[attempt] = "status_nonzero" ->
                [ret |-> FALSE, raised |-> FALSE, attempts |-> attempt]
           [] OTHER -> PushFromGivesUpOnNonzero(script, attempt + 1)
\* The for loop of push_to_feishu from attempt number `attempt` on.
RECURSIVE PushFrom(_, _)
PushFrom(script, attempt) ==
    IF attempt > MaxRetry
    THEN [ret |-> FALSE, raised |-> FALSE, attempts |-> MaxRetry]
    ELSE CASE script[attempt] = "status_zero" ->
                [ret |-> TRUE, raised |-> FALSE, attempts |-> attempt]
           [] script[attempt] = "bad_body" ->
                [ret |-> FALSE, raised |-> TRUE, attempts |-> attempt]
           [] OTHER -> PushFrom(script, attempt + 1)
\* push_to_feishu
PushToFeishu(script) == PushFrom(script, 1)

\* ------------------------------------------------------- daily forecast
\* One item of the provider's "daily" list. hasDate = FALSE: no "fxDate" key
\* (strptime(None, ...) raises TypeError); precipOK = FALSE: "precip" is no
\* number literal (float() raises ValueError). precip is in tenths of a mm.
MkDaily(hasDate, fxDate, precipOK, precip, textDay, textNight) ==
    [hasDate |-> hasDate, fxDate |-> fxDate, precipOK |-> precipOK,
     precip |-> precip, textDay |-> textDay, textNight |-> textNight]
\* The classification loop of _handle_daily_push raises on a malformed item.
DigestRaises(forecast_data) ==
    \E i \in 1..Len(forecast_data) :
        ~forecast_data[i].precipOK \/ ~forecast_data[i].hasDate

\* --------------------------------------------- the digest of three days
\* Texts are sequences of characters, one token a character: "bao" is the
\* character of bao yu and sha chen bao, "bao2" the one of bing bao.
\* rain_keywords
RainKeywords ==
    { <<"zhen", "yu">>, <<"zhong", "yu">>, <<"da", "yu">>, <<"bao", "yu">>,
      <<"ji", "duan", "jiang", "yu">> }
\* other_severe_keywords
OtherSevereKeywords ==
    { <<"bing", "bao2">>, <<"tai", "feng">>, <<"xue">>, <<"bao", "xue">>,
      <<"da", "xue">>, <<"sha", "chen", "bao">>, <<"wu">>, <<"mai">>,
      <<"dong", "yu">>, <<"yu", "jia", "xue">> }
\* precip_mm >= 5.0, in tenths of a millimetre.
PrecipThreshold == 50
\* text_to_check = text_day + text_night
TextToCheck(f) == f.textDay \o f.textNight
\* days_diff = (date_obj - now.date()).days
DaysDiff(f, nowv) == f.fxDate - DateOf(nowv)
\* The keys of day_map: today, tomorrow, the day after.
DayMap == {0, 1, 2}
\* date_prefix: the name of the day, or the literal fxDate outside day_map.
DatePrefix(f, nowv) ==
    IF DaysDiff(f, nowv) \in DayMap
    THEN << "day", DaysDiff(f, nowv) >> ELSE << "fxDate", f.fxDate >>
IsRainByKeyword(f) == ContainsAny(RainKeywords, TextToCheck(f))
IsRainByPrecip(f) ==
    f.precip >= PrecipThreshold /\ Contains(<<"yu">>, TextToCheck(f))
\* if is_rain_by_keyword or is_rain_by_precip
IsRain(f) == IsRainByKeyword(f) \/ IsRainByPrecip(f)
\* The loop over other_severe_keywords finds one of them in the text.
IsSevere(f) == ContainsAny(OtherSevereKeywords, TextToCheck(f))
\* rain_alerts: one line for each day that satisfies the rain condition.
RainAlerts(forecast_data, nowv) ==
    LET sel == SelectSeq(forecast_data, IsRain) IN
    [i \in 1..Len(sel) |-> [date_prefix |-> DatePrefix(sel[i], nowv),
                            textDay |-> sel[i].textDay,
                            precip |-> sel[i].precip]]
\* other_severe_alerts: one line for each day with a severe keyword.
OtherSevereAlerts(forecast_data, nowv) ==
    LET sel == SelectSeq(forecast_data, IsSevere) IN
    [i \in 1..Len(sel) |-> [date_prefix |-> DatePrefix(sel[i], nowv),
                            textDay |-> sel[i].textDay]]
\* The day offset is appended only when it is a key of day_map.
InDayMap(f, nowv) == DaysDiff(f, nowv) \in DayMap
\* rain_days_indices
RainDaysIndices(forecast_data, nowv) ==
    LET Keep(f) == IsRain(f) /\ InDayMap(f, nowv)
        sel == SelectSeq(forecast_data, Keep) IN
    [i \in 1..Len(sel) |-> DaysDiff(sel[i], nowv)]
\* severe_days_indices
SevereDaysIndices(forecast_data, nowv) ==
    LET Keep(f) == IsSevere(f) /\ InDayMap(f, nowv)
        sel == SelectSeq(forecast_data, Keep) IN
    [i \in 1..Len(sel) |-> DaysDiff(sel[i], nowv)]
\* The elements of a list as a set: set(rain_days_indices).
SetOf(q) == {q[i] : i \in 1..Len(q)}
\* The suffix chain without the case of today and the day after.
RainSuffixNoTodayAndAfter(rain_days_set) ==
    IF Cardinality(rain_days_set) = 3 THEN "-wei lai san tian you yu"
    ELSE IF rain_days_set = {0, 1} THEN "-jin ming tian you yu"
    ELSE IF rain_days_set = {1, 2} THEN "-ming hou tian you yu"
    ELSE IF rain_days_set = {0} THEN "-jin tian you yu"
    ELSE IF rain_days_set = {1} THEN "-ming tian you yu"
    ELSE IF rain_days_set = {2} THEN "-hou tian you yu"
    ELSE ""
\* The if/elif chain that picks the suffix; "" when no case matches.
RainSuffix(rain_days_set) ==
    IF Cardinality(rain_days_set) = 3 THEN "-wei lai san tian you yu"
    ELSE IF rain_days_set = {0, 1} THEN "-jin ming tian you yu"
    ELSE IF rain_days_set = {1, 2} THEN "-ming hou tian you yu"
    ELSE IF rain_days_set = {0, 2} THEN "-jin hou tian you yu"
    ELSE IF rain_days_set = {0} THEN "-jin tian you yu"
    ELSE IF rain_days_set = {1} THEN "-ming tian you yu"
    ELSE IF rain_days_set = {2} THEN "-hou tian you yu"
    ELSE ""
\* The three shapes of the title: the sign, the words "today's weather" and
\* what follows them.
SevereTitle == << "warning", "jin ri tian qi", "-e lie tian qi yu jing" >>
RainTitle(suffix) == << "warning", "jin ri tian qi", suffix >>
PlainTitle == << "announce", "jin ri tian qi", "" >>
\* The title chain asking for rain days before severe days.
DigestTitleRainFirst(severe_days_indices, rain_days_indices) ==
    IF rain_days_indices # <<>>
    THEN RainTitle(RainSuffix(SetOf(rain_days_indices)))
    ELSE IF severe_days_indices # <<>> THEN SevereTitle
    ELSE PlainTitle
\* if severe_days_indices / elif rain_days_indices / else
DigestTitle(severe_days_indices, rain_days_indices) ==
    IF severe_days_indices # <<>> THEN SevereTitle
    ELSE IF rain_days_indices # <<>>
    THEN RainTitle(RainSuffix(SetOf(rain_days_indices)))
    ELSE PlainTitle
\* The title and the two optional sections of the body of the digest.
BuildDigest(forecast_data, nowv) ==
    LET rain_alerts == RainAlerts(forecast_data, nowv)
        other_severe_alerts == OtherSevereAlerts(forecast_data, nowv)
        rain_days_indices == RainDaysIndices(forecast_data, nowv)
        severe_days_indices == SevereDaysIndices(forecast_data, nowv)
    IN [title |-> DigestTitle(severe_days_indices, rain_days_indices),
        severe_days_indices |-> severe_days_indices,
        rain_days_indices |-> rain_days_indices,
        severe_section |-> other_severe_alerts,
        rain_section |-> rain_alerts]

\* ------------------------------------------------- _handle_daily_push
\* now.hour == daily_push_hour and now.minute == daily_push_minute
DailyMinute(nowv, c) ==
    HourOf(nowv) = c.daily_push_hour /\ MinuteOf(nowv) = c.daily_push_minute
\* The trigger without the last_daily_push_date check.
DailyTriggerFiresEveryTick(last, nowv, c) == DailyMinute(nowv, c)
\* The two nested conditions that guard the digest.
DailyTriggerFires(last, nowv, c) ==
    DailyMinute(nowv, c) /\ last # DateOf(nowv)
\* last_daily_push_date written only after a push that returned True.
LastAfterPushOnlyOnSuccess(last, today, ret) == IF ret THEN today ELSE last
\* self.last_daily_push_date = today_str, after push_to_feishu returned ret.
LastAfterPush(last, today, ret) == today
\* _handle_daily_push(now). fetch is "none" when the trigger did not fire,
\* "failed" when get_daily_weather gave None or an empty list, else "ok";
\* pushed counts the push_to_feishu calls; last is last_daily_push_date after.
HandleDailyPush(last, c, nowv, script, payload, pushScript) ==
    IF ~DailyTriggerFires(last, nowv, c)
    THEN [fired |-> FALSE, fetch |-> "none", raised |-> FALSE, pushed |-> 0,
          pushRet |-> FALSE, last |-> last]
    ELSE LET f == GetDailyWeather(script, payload) IN
         IF ~f.ok \/ f.data = <<>>
         THEN [fired |-> TRUE, fetch |-> "failed", raised |-> FALSE, pushed |-> 0,
               pushRet |-> FALSE, last |-> last]
         ELSE IF DigestRaises(f.data)
         THEN [fired |-> TRUE, fetch |-> "ok", raised |-> TRUE, pushed |-> 0,
               pushRet |-> FALSE, last |-> last]
         ELSE LET p == PushToFeishu(pushScript) IN
              IF p.raised
              THEN [fired |-> TRUE, fetch |-> "ok", raised |-> TRUE, pushed |-> 1,
                    pushRet |-> FALSE, last |-> last]
              ELSE [fired |-> TRUE, fetch |-> "ok", raised |-> FALSE, pushed |-> 1,
                    pushRet |-> p.ret,
                    last |-> LastAfterPush(last, DateOf(nowv), p.ret)]

\* ------------------------------------------------- _handle_rain_alert
\* now.minute % check_interval_minutes == 0
RainDue(nowv, c) == MinuteOf(nowv) % c.check_interval_minutes = 0
\* item qualifies: its text contains a severe-rain keyword.
Qualifies(item) == ContainsAny(SevereRainKeywords, item.text)
\* detected_forecasts
DetectedForecasts(hourly_forecasts) == SelectSeq(hourly_forecasts, Qualifies)
\* An alert on every tick that detects rain.
RainOnsetEveryTick(active, detected) == detected
\* if rain_detected: if not self.rain_active: -> push the alert
RainOnset(active, detected) == detected /\ ~active
\* The flag never cleared.
RainActiveNeverCleared(active, detected) == detected \/ active
\* rain_active after a check whose push (if any) returned.
RainActiveAfter(active, detected) == detected
\* rain_start_time taken from the last detected item.
RainStartTimeLast(detected_forecasts) ==
    detected_forecasts[Len(detected_forecasts)].time
\* rain_start_time: the time label of the first detected item of the list.
RainStartTime(detected_forecasts) == detected_forecasts[1].time
\* The alert: the title names rain_start_time, hourly_lines has one line
\* (time, text, pop) for each detected item.
RainAlert(detected_forecasts) ==
    [rain_start_time |-> RainStartTime(detected_forecasts),
     hourly_lines |-> detected_forecasts]
NoAlert == [rain_start_time |-> <<>>, hourly_lines |-> <<>>]
\* rain_active set only when the alert was delivered.
ActiveAfterAlertOnlyIfDelivered(ret) == ret
\* self.rain_active = True after push_to_feishu returned ret.
ActiveAfterAlert(ret) == TRUE
\* _handle_rain_alert(now), nowh the time get_hourly_weather reads.
\* checked: the fetch, the classification and the hysteresis update were done.
HandleRainAlert(active, c, nowv, nowh, script, payload, pushScript) ==
    IF ~RainDue(nowv, c)
    THEN [due |-> FALSE, checked |-> FALSE, raised |-> FALSE, fetched |-> FALSE,
          detected |-> FALSE, pushed |-> 0, pushRet |-> FALSE, alert |-> NoAlert,
          rain_active |-> active]
    ELSE LET h == GetHourlyWeather(script, payload, nowh)
             detected_forecasts == DetectedForecasts(h.list)
             rain_detected == detected_forecasts # <<>>
         IN
         IF h.raised
         THEN [due |-> TRUE, checked |-> FALSE, raised |-> TRUE, fetched |-> TRUE,
               detected |-> FALSE, pushed |-> 0, pushRet |-> FALSE,
               alert |-> NoAlert, rain_active |-> active]
         ELSE IF RainOnset(active, rain_detected)
         THEN LET p == PushToFeishu(pushScript) IN
              IF p.raised
              THEN [due |-> TRUE, checked |-> FALSE, raised |-> TRUE,
                    fetched |-> h.fetched, detected |-> TRUE, pushed |-> 1,
                    pushRet |-> FALSE, alert |-> RainAlert(detected_forecasts),
                    rain_active |-> active]
              ELSE [due |-> TRUE, checked |-> TRUE, raised |-> FALSE,
                    fetched |-> h.fetched, detected |-> TRUE, pushed |-> 1,
                    pushRet |-> p.ret, alert |-> RainAlert(detected_forecasts),
                    rain_active |-> ActiveAfterAlert(p.ret)]
         ELSE [due |-> TRUE, checked |-> TRUE, raised |-> FALSE,
               fetched |-> h.fetched, detected |-> rain_detected, pushed |-> 0,
               pushRet |-> FALSE, alert |-> NoAlert,
               rain_active |-> RainActiveAfter(active, rain_detected)]
\* The rain handler is not reached: the daily handler raised out of run().
RainNotReached(active, c, nowv) ==
    [due |-> RainDue(nowv, c), checked |-> FALSE, raised |-> FALSE,
     fetched |-> FALSE, detected |-> FALSE, pushed |-> 0, pushRet |-> FALSE,
     alert |-> NoAlert, rain_active |-> active]

\* ---------------------------------------------------------------- run
\* next_minute of run(), without the step that turns 0 into a full interval.
NextMinuteNoFullInterval(m, c) == (c - (m % c)) % c
\* next_minute of run(): minutes from minute m to the next multiple of c.
NextMinute(m, c) ==
    LET next_minute == (c - (m % c)) % c IN
    IF next_minute = 0 THEN c ELSE next_minute
\* sleep_seconds of run() for a tick that read the time nowv.
SleepSeconds(nowv, c) == NextMinute(MinuteOf(nowv), c) * 60 - SecondOf(nowv)

\* ------------------------------------------------------------- inputs
\* The scripts and payloads the process specification draws a tick's network
\* answers from.
ScriptOf(prefix, rest) ==
    [i \in 1..MaxRetry |-> IF i <= Len(prefix) THEN prefix[i] ELSE rest]
ProcGetScripts ==
    { ScriptOf(<<"transport_error", "http_error">>, "code_200"),
      ScriptOf(<<>>, "transport_error"),
      ScriptOf(<<"code_other">>, "code_200") }
ProcPostScripts ==
    { ScriptOf(<<"http_error", "status_nonzero">>, "status_zero"),
      ScriptOf(<<"transport_error">>, "status_nonzero"),
      ScriptOf(<<"status_nonzero">>, "bad_body") }
Sunny == <<"qing">>
LightRain == <<"xiao", "yu">>
ModerateRain == <<"zhong", "yu">>
HeavyRain == <<"da", "yu">>
DailyPayloads(nowv) ==
    LET d == DateOf(nowv) IN
    { <<>>,
      << MkDaily(TRUE, d, TRUE, 0, Sunny, Sunny),
         MkDaily(TRUE, d + 1, TRUE, 120, ModerateRain, LightRain),
         MkDaily(TRUE, d + 2, TRUE, 0, Sunny, Sunny) >>,
      << MkDaily(TRUE, d, TRUE, 0, Sunny, Sunny),
         MkDaily(FALSE, 0, TRUE, 0, Sunny, Sunny) >>,
      << MkDaily(TRUE, d, FALSE, 0, LightRain, LightRain) >> }
\* The hour mark k hours after the start of the hour nowv lies in.
HourMark(nowv, k) == (nowv \div 3600) * 3600 + k * 3600
HourlyPayloads(nowv) ==
    { << MkHourly(TRUE, HourMark(nowv, 1), 8, Sunny, TRUE, 0),
         MkHourly(TRUE, HourMark(nowv, 2), 8, LightRain, TRUE, 40) >>,
      << MkHourly(TRUE, HourMark(nowv, 1) - 8 * 3600, 0, LightRain, TRUE, 70),
         MkHourly(TRUE, HourMark(nowv, 2), 8, ModerateRain, TRUE, 90),
         MkHourly(TRUE, HourMark(nowv, 3), 8, LightRain, TRUE, 60) >>,
      << MkHourly(TRUE, HourMark(nowv, 9), 8, HeavyRain, TRUE, 80) >>,
      << MkHourly(TRUE, HourMark(nowv, 1), 8, HeavyRain, TRUE, 80),
         MkHourly(FALSE, 0, 8, Sunny, TRUE, 0) >> }
\* Seconds the handlers of one tick may take.
ElapsedChoices == {0, 70}
NoScript == ScriptOf(<<>>, "transport_error")
NoInput == [s |-> NoScript, p |-> <<>>, q |-> NoScript]
\* The answers a digest can meet: a webhook answer is drawn only when the
\* digest gets as far as its push, a payload only when the fetch returns one.
DailyInputs(last, nowv, c) ==
    IF ~DailyTriggerFires(last, nowv, c)
    THEN {NoInput}
    ELSE UNION { IF RequestWithRetry(s).resp # "code_200"
                 THEN {[s |-> s, p |-> <<>>, q |-> NoScript]}
                 ELSE UNION { IF p = <<>> \/ DigestRaises(p)
                              THEN {[s |-> s, p |-> p, q |-> NoScript]}
                              ELSE {[s |-> s, p |-> p, q |-> q] : q \in ProcPostScripts}
                              : p \in DailyPayloads(nowv) }
                 : s \in ProcGetScripts }
\* The answers a rain check can meet. The provider's hourly list is drawn
\* also when the fetch fails: it is the weather the failed fetch did not see.
RainInputs(active, nowv, c) ==
    IF ~RainDue(nowv, c)
    THEN {NoInput}
    ELSE UNION { IF active \/ RequestWithRetry(s).resp # "code_200"
                 THEN {[s |-> s, p |-> p, q |-> NoScript]}
                 ELSE {[s |-> s, p |-> p, q |-> q] : q \in ProcPostScripts}
                 : s \in ProcGetScripts, p \in HourlyPayloads(nowv) }
Elapsed(last, nowv, c) ==
    IF DailyTriggerFires(last, nowv, c) \/ RainDue(nowv, c)
    THEN ElapsedChoices ELSE {0}
\* Whether the provider's forecast holds a qualifying hour in the 6-hour window.
ProviderRain(payload, nowh) ==
    /\ \A i \in 1..Len(payload) : payload[i].hasTime /\ payload[i].popOK
    /\ DetectedForecasts(FilterHourly(payload, nowh)) # <<>>

\* --------------------------------------------------------------- state
VARIABLES
    config,                 \* the content of config.ini
    argv,                   \* "test" when sys.argv[1] == '--test', else "run"
    pc,                     \* main(): "start" at the top of its while loop,
                            \* "run" inside monitor.run(), "exited" after break
    now,                    \* the wall clock at the next thing the process does
    starts,                 \* WeatherMonitor() constructions so far
    ticks,                  \* ticks of run() so far, all instances
    rain_active,            \* self.rain_active
    last_daily_push_date,   \* self.last_daily_push_date
    tk,                     \* what the latest tick did
    instPushes,             \* date -> digest pushes by the current instance
    instAttempts,           \* date -> digest fetches by the current instance
    instFailed,             \* dates on which a digest fetch of the instance failed
    procPushes,             \* date -> digest pushes by the process
    qualRun,                \* consecutive qualifying rain checks of the instance
    runAlerts,              \* alert pushes during that run
    hist,                   \* the latest three completed rain checks
    episodeLen,             \* consecutive rain checks with rain at the provider
    episodeAlerts,          \* alert pushes during that episode
    testPushes,             \* run_test_push calls
    testOutcome,            \* how the pass of main() in test mode ended
    fx,                     \* the fetch specification: one call and its result
    dg,                     \* the digest specification: a forecast and its digest
    hw,                     \* the hourly specification: a forecast and its check
    px                      \* the push specification: one call and its result

vars == << config, argv, pc, now, starts, ticks, rain_active,
           last_daily_push_date, tk, instPushes, instAttempts, instFailed,
           procPushes, qualRun, runAlerts, hist, episodeLen, episodeAlerts,
           testPushes, testOutcome, fx, dg, hw, px >>
\* The variables of the specifications of one function.
aux == << dg, hw, px >>

\* The last calendar date the model follows the process into.
MaxDate == 2
Dates == 0..MaxDate
NoTick ==
    [valid |-> FALSE, start |-> 0, startLast |-> NoDate, startActive |-> FALSE,
     dFired |-> FALSE, dFetch |-> "none", dRaised |-> FALSE, dPushed |-> 0,
     dPushRet |-> FALSE, dLast |-> NoDate, rDue |-> FALSE, rChecked |-> FALSE, rRaised |-> FALSE,
     rDetected |-> FALSE, rPushed |-> 0, rPushRet |-> FALSE, provRain |-> FALSE,
     crashed |-> FALSE, sleep |-> 0, elapsed |-> 0]
NoFetch == [script |-> ScriptOf(<<>>, "code_200"), call |-> "none", ok |-> FALSE,
            attempts |-> 0]
NoDigest == [done |-> FALSE]
NoHourly == [done |-> FALSE]
NoPush == [done |-> FALSE]
ZeroPerDate == [d \in Dates |-> 0]
Min(a, b) == IF a <= b THEN a ELSE b
LastThree(h) == IF Len(h) <= 3 THEN h ELSE SubSeq(h, Len(h) - 2, Len(h))

\* The fields of a fresh WeatherMonitor and of the observers that follow it.
FreshInstance ==
    /\ rain_active' = FALSE
    /\ last_daily_push_date' = NoDate
    /\ instPushes' = ZeroPerDate
    /\ instAttempts' = ZeroPerDate
    /\ instFailed' = {}
    /\ qualRun' = 0
    /\ runAlerts' = 0
    /\ hist' = <<>>
    /\ episodeLen' = 0
    /\ episodeAlerts' = 0
InstanceUnchanged ==
    UNCHANGED << rain_active, last_daily_push_date, instPushes, instAttempts,
                 instFailed, qualRun, runAlerts, hist, episodeLen, episodeAlerts >>

StartTimes == { At(0, 23, 59, 30), At(1, 0, 0, 10), At(1, 0, 15, 20) }

InitCommon ==
    /\ starts = 0
    /\ ticks = 0
    /\ rain_active = FALSE
    /\ last_daily_push_date = NoDate
    /\ tk = NoTick
    /\ instPushes = ZeroPerDate
    /\ instAttempts = ZeroPerDate
    /\ instFailed = {}
    /\ procPushes = ZeroPerDate
    /\ qualRun = 0
    /\ runAlerts = 0
    /\ hist = <<>>
    /\ episodeLen = 0
    /\ episodeAlerts = 0
    /\ testPushes = 0
    /\ testOutcome = "none"

\* The process as main() is entered.
Init ==
    /\ config \in Configs
    /\ argv \in {"run", "test"}
    /\ pc = "start"
    /\ now \in StartTimes
    /\ fx = NoFetch
    /\ dg = NoDigest /\ hw = NoHourly /\ px = NoPush
    /\ InitCommon

\* -------------------------------------------------------------- main()
\* monitor = WeatherMonitor() succeeds and main() enters monitor.run().
ConstructOK ==
    /\ pc = "start" /\ argv = "run" /\ starts < MaxStarts
    /\ LoadConfig(config) = "loaded"
    /\ FreshInstance
    /\ pc' = "run"
    /\ starts' = starts + 1
    /\ UNCHANGED << config, argv, now, ticks, tk, procPushes, testPushes, testOutcome, fx, aux >>

\* WeatherMonitor() raises configparser.Error: logged as fatal, break.
ConstructFatal ==
    /\ pc = "start" /\ starts < MaxStarts
    /\ LoadConfig(config) = "configparser.Error"
    /\ pc' = "exited"
    /\ starts' = starts + 1
    /\ testOutcome' = IF argv = "test" THEN "config_error" ELSE testOutcome
    /\ InstanceUnchanged
    /\ UNCHANGED << config, argv, now, ticks, tk, procPushes, testPushes, fx, aux >>

\* WeatherMonitor() raises another exception outside test mode: the handler
\* of Exception sleeps RestartDelay seconds and the while loop goes round.
ConstructCrash ==
    /\ pc = "start" /\ argv = "run" /\ starts < MaxStarts
    /\ LoadConfig(config) = "ValueError"
    /\ pc' = "start"
    /\ now' = now + RestartDelay
    /\ starts' = starts + 1
    /\ InstanceUnchanged
    /\ UNCHANGED << config, argv, ticks, tk, procPushes, testPushes, testOutcome, fx, aux >>

\* The handler of Exception restarting in test mode too.
AfterExceptionAlwaysRestarts(mode) == "start"
\* except Exception: outside test mode sleep and go round the loop again,
\* in test mode log and break.
AfterException(mode) == IF mode = "test" THEN "exited" ELSE "start"
\* Test mode: one pass of the while loop. run_test_push is called when the
\* monitor was built, and break follows when it returns; an exception of the
\* constructor or of run_test_push goes to the handler of Exception.
MainTest ==
    /\ pc = "start" /\ argv = "test" /\ starts < MaxStarts
    /\ LoadConfig(config) \in {"loaded", "ValueError"}
    /\ \E q \in ProcPostScripts :
       \E p \in {PushToFeishu(q)} :
          IF LoadConfig(config) = "loaded"
          THEN /\ testPushes' = testPushes + 1
               /\ testOutcome' = IF p.raised THEN "raised"
                                 ELSE IF p.ret THEN "returned_true"
                                 ELSE "returned_false"
               /\ pc' = IF p.raised THEN AfterException(argv) ELSE "exited"
          ELSE /\ testPushes' = testPushes
               /\ testOutcome' = "init_error"
               /\ pc' = AfterException(argv)
    /\ starts' = starts + 1
    /\ InstanceUnchanged
    /\ UNCHANGED << config, argv, now, ticks, tk, procPushes, fx, aux >>

\* ----------------------------------------------------- one tick of run()
\* time.sleep raises ValueError on a negative argument.
SleepRaises(nowv, c) == SleepSeconds(nowv, c.check_interval_minutes) < 0
\* The handlers' effect on the monitor and on the observers: d and r are the
\* results of the two handlers, prov whether the provider forecasts rain.
TickStep(d, r, prov, e) ==
    LET today == DateOf(now)
        crashed == d.raised \/ r.raised \/ SleepRaises(now, config)
    IN
    /\ tk' = [valid |-> TRUE, start |-> now,
              startLast |-> last_daily_push_date, startActive |-> rain_active,
              dFired |-> d.fired, dFetch |-> d.fetch, dRaised |-> d.raised,
              dPushed |-> d.pushed, dPushRet |-> d.pushRet, dLast |-> d.last,
              rDue |-> r.due, rChecked |-> r.checked, rRaised |-> r.raised,
              rDetected |-> r.detected, rPushed |-> r.pushed,
              rPushRet |-> r.pushRet, provRain |-> prov,
              crashed |-> crashed,
              sleep |-> SleepSeconds(now, config.check_interval_minutes),
              elapsed |-> e]
    /\ rain_active' = r.rain_active
    /\ last_daily_push_date' = d.last
    /\ instPushes' = [instPushes EXCEPT ![today] = @ + d.pushed]
    /\ procPushes' = [procPushes EXCEPT ![today] = @ + d.pushed]
    /\ instAttempts' = [instAttempts EXCEPT ![today] = @ + IF d.fired THEN 1 ELSE 0]
    /\ instFailed' = IF d.fetch = "failed" THEN instFailed \cup {today} ELSE instFailed
    /\ IF r.checked
       THEN /\ qualRun' = IF r.detected THEN Min(qualRun + 1, MaxRun) ELSE 0
            /\ runAlerts' = IF r.detected THEN runAlerts + r.pushed ELSE 0
            /\ hist' = LastThree(Append(hist,
                          [q |-> r.detected, pushed |-> r.pushed,
                           ret |-> r.pushRet, active0 |-> rain_active]))
            /\ episodeLen' = IF prov THEN Min(episodeLen + 1, MaxRun) ELSE 0
            /\ episodeAlerts' = IF prov THEN episodeAlerts + r.pushed ELSE 0
       ELSE UNCHANGED << qualRun, runAlerts, hist, episodeLen, episodeAlerts >>
\* self._handle_daily_push(now); self._handle_rain_alert(now): the second is
\* reached only when the first returned.
RunHandlers(din, rin, e) ==
    \E d \in {HandleDailyPush(last_daily_push_date, config, now, din.s, din.p, din.q)} :
    \E r \in {IF d.raised
              THEN RainNotReached(rain_active, config, now)
              ELSE HandleRainAlert(rain_active, config, now, now + e,
                                   rin.s, rin.p, rin.q)} :
       /\ TickStep(d, r, r.due /\ ~d.raised /\ ProviderRain(rin.p, now + e), e)
       /\ pc' = IF d.raised \/ r.raised \/ SleepRaises(now, config)
                THEN "start" ELSE "run"

\* One iteration of the while loop of run(): both handlers, then the sleep;
\* an exception leaves run() and main() sleeps RestartDelay seconds.
Tick ==
    /\ pc = "run" /\ ticks < MaxTicks /\ DateOf(now) <= MaxDate
    /\ \E din \in DailyInputs(last_daily_push_date, now, config) :
       \E rin \in RainInputs(rain_active, now, config) :
       \E e \in Elapsed(last_daily_push_date, now, config) :
          /\ RunHandlers(din, rin, e)
          /\ now' = IF pc' = "start"
                    THEN now + e + RestartDelay
                    ELSE now + e + SleepSeconds(now, config.check_interval_minutes)
    /\ ticks' = ticks + 1
    /\ UNCHANGED << config, argv, starts, testPushes, testOutcome, fx, aux >>

Next == ConstructOK \/ ConstructFatal \/ ConstructCrash \/ MainTest \/ Tick

Spec == Init /\ [][Next]_vars

\* ------------------------------------- one instance, any tick times
\* The times a tick of the harness may read.
TickTimes ==
    { At(d, 0, 0, 0) : d \in 0..1 } \cup { At(d, 0, 0, 30) : d \in 0..1 }
    \cup { At(d, 0, 15, 10) : d \in 0..1 } \cup { At(d, 0, 30, 0) : d \in 0..1 }
\* After the last tick time.
EndOfTime == At(MaxDate + 1, 0, 0, 0)
InitTicks ==
    /\ config \in { c \in Configs : c.status = "ok" }
    /\ argv = "run"
    /\ pc = "run"
    /\ now \in TickTimes
    /\ fx = NoFetch
    /\ dg = NoDigest /\ hw = NoHourly /\ px = NoPush
    /\ InitCommon

\* The two handlers called as run() calls them, at a time that only has to
\* be later than the tick before; an exception ends the instance.
HarnessTick ==
    /\ pc = "run" /\ ticks < MaxHarnessTicks /\ DateOf(now) <= MaxDate
    /\ \E din \in DailyInputs(last_daily_push_date, now, config) :
       \E rin \in RainInputs(rain_active, now, config) :
       \E e \in Elapsed(last_daily_push_date, now, config) :
          RunHandlers(din, rin, e)
    /\ now' \in { t \in TickTimes : t > now } \cup {EndOfTime}
    /\ ticks' = ticks + 1
    /\ UNCHANGED << config, argv, starts, testPushes, testOutcome, fx, aux >>

SpecTicks == InitTicks /\ [][HarnessTick]_vars

\* ------------------------------------------ the sleep of run(), any time
InitSleep ==
    /\ config \in { MkConfig("ok", 0, 0, c) : c \in 1..MaxInterval }
    /\ argv = "run"
    /\ pc = "run"
    /\ now \in { At(1, 5, m, s) : m \in 0..59, s \in 0..59 }
    /\ fx = NoFetch
    /\ dg = NoDigest /\ hw = NoHourly /\ px = NoPush
    /\ InitCommon

\* The first tick of an instance.
FirstTick == ticks = 0 /\ Tick

SpecSleep == InitSleep /\ [][FirstTick]_vars

\* ------------------------------------------------- the fetch, any script
InitFetch ==
    /\ config = MkConfig("ok", 0, 0, 30)
    /\ argv = "run"
    /\ pc = "run"
    /\ now = At(1, 0, 0, 0)
    /\ fx \in [script : GetScripts, call : {"none"}, ok : {FALSE}, attempts : {0}]
    /\ dg = NoDigest /\ hw = NoHourly /\ px = NoPush
    /\ InitCommon

\* One call of get_daily_weather.
FetchDaily ==
    /\ fx.call = "none"
    /\ \E p \in DailyPayloads(now) :
       \E f \in {GetDailyWeather(fx.script, p)} :
          fx' = [fx EXCEPT !.call = "daily", !.ok = f.ok, !.attempts = f.attempts]
    /\ UNCHANGED << config, argv, pc, now, starts, ticks, rain_active,
                    last_daily_push_date, tk, instPushes, instAttempts,
                    instFailed, procPushes, qualRun, runAlerts, hist,
                    episodeLen, episodeAlerts, testPushes, testOutcome, aux >>

\* One call of get_hourly_weather.
FetchHourly ==
    /\ fx.call = "none"
    /\ \E p \in HourlyPayloads(now) :
       \E h \in {GetHourlyWeather(fx.script, p, now)} :
          fx' = [fx EXCEPT !.call = "hourly", !.ok = h.fetched,
                           !.attempts = h.attempts]
    /\ UNCHANGED << config, argv, pc, now, starts, ticks, rain_active,
                    last_daily_push_date, tk, instPushes, instAttempts,
                    instFailed, procPushes, qualRun, runAlerts, hist,
                    episodeLen, episodeAlerts, testPushes, testOutcome, aux >>

NextFetch == FetchDaily \/ FetchHourly

SpecFetch == InitFetch /\ [][NextFetch]_vars

\* ================================================================ claims

\* ------------------------------------------- the digest on its own
\* The endpoint asked for is the three-day forecast.
ForecastDays == 3
\* The largest distance in days between a forecast date and today.
MaxDayOffset == 3
\* The date of today in the digest specification.
DigestNow == At(1, 8, 0, 0)
Snow == <<"da", "xue">>
Sleet == <<"yu", "jia", "xue">>
Cloudy == <<"duo", "yun">>
\* What a day can look like: day text, night text, precipitation.
DayKinds ==
    { << Sunny, Sunny, 0 >>, << LightRain, LightRain, 20 >>,
      << LightRain, LightRain, 50 >>, << ModerateRain, Sunny, 0 >>,
      << Snow, Sunny, 0 >>, << Sleet, Sleet, 60 >>, << Cloudy, Cloudy, 80 >> }
\* Well-formed daily records dated from yesterday to MaxDayOffset days ahead.
DigestDays ==
    { MkDaily(TRUE, DateOf(DigestNow) + o, TRUE, k[3], k[1], k[2]) :
        o \in (-1)..MaxDayOffset, k \in DayKinds }
InitDigest ==
    /\ config = MkConfig("ok", 0, 0, 1) /\ argv = "run" /\ pc = "run"
    /\ now = DigestNow
    /\ fx = NoFetch
    /\ dg \in [done : {FALSE}, forecast_data : [1..ForecastDays -> DigestDays]]
    /\ hw = NoHourly /\ px = NoPush
    /\ InitCommon
\* The digest of the forecast drawn.
DigestStep ==
    /\ ~dg.done
    /\ dg' = [done |-> TRUE, forecast_data |-> dg.forecast_data,
              digest |-> BuildDigest(dg.forecast_data, now)]
    /\ UNCHANGED << config, argv, pc, now, starts, ticks, rain_active,
                    last_daily_push_date, tk, instPushes, instAttempts,
                    instFailed, procPushes, qualRun, runAlerts, hist,
                    episodeLen, episodeAlerts, testPushes, testOutcome,
                    fx, hw, px >>
NextDigest == DigestStep
SpecDigest == InitDigest /\ [][NextDigest]_vars

\* ------------------------------------------- the rain check on its own
\* The number of items of the hourly list drawn.
HourlyLen == 3
\* Items lie from one hour before to MaxHourOffset hours after the hour of now.
MaxHourOffset == 7
\* A check on the hour, and one at half past that reaches over midnight.
HourlyNows == { At(0, 14, 0, 0), At(0, 21, 30, 0) }
Shower == <<"zhen", "yu">>
\* Text, probability and the UTC offset the fxTime is written with.
HourKinds ==
    { << LightRain, 30, 8 >>, << Shower, 50, 8 >>, << ModerateRain, 80, 8 >>,
      << ModerateRain, 70, 0 >> }
HourlyItems(nowh) ==
    { MkHourly(TRUE, HourMark(nowh, k) - (8 - kind[3]) * 3600, kind[3],
               kind[1], TRUE, kind[2]) :
        k \in (-1)..MaxHourOffset, kind \in HourKinds }
\* The provider lists the hours in chronological order.
HourlyLists(nowh) ==
    { q \in [1..HourlyLen -> HourlyItems(nowh)] :
        \A i \in 1..(HourlyLen - 1) : FxTime(q[i]) < FxTime(q[i + 1]) }
RainPostScripts ==
    { ScriptOf(<<>>, "status_zero"), ScriptOf(<<>>, "status_nonzero") }
InitHourly ==
    /\ config = MkConfig("ok", 0, 0, 1) /\ argv = "run" /\ pc = "run"
    /\ now \in HourlyNows
    /\ fx = NoFetch /\ dg = NoDigest /\ px = NoPush
    /\ \E active \in BOOLEAN, q \in RainPostScripts :
          hw \in [done : {FALSE}, active : {active}, pushScript : {q},
                  payload : HourlyLists(now)]
    /\ InitCommon
\* One due rain check whose fetch succeeds at once.
RainCheckStep ==
    /\ ~hw.done
    /\ hw' = [done |-> TRUE, active |-> hw.active, pushScript |-> hw.pushScript,
              payload |-> hw.payload,
              hourly |-> GetHourlyWeather(ScriptOf(<<>>, "code_200"),
                                          hw.payload, now),
              r |-> HandleRainAlert(hw.active, config, now, now,
                                    ScriptOf(<<>>, "code_200"), hw.payload,
                                    hw.pushScript)]
    /\ UNCHANGED << config, argv, pc, now, starts, ticks, rain_active,
                    last_daily_push_date, tk, instPushes, instAttempts,
                    instFailed, procPushes, qualRun, runAlerts, hist,
                    episodeLen, episodeAlerts, testPushes, testOutcome,
                    fx, dg, px >>
NextHourly == RainCheckStep
SpecHourly == InitHourly /\ [][NextHourly]_vars

\* ------------------------------------------------ the push, any script
InitPush ==
    /\ config = MkConfig("ok", 0, 0, 1) /\ argv = "run" /\ pc = "run"
    /\ now = At(0, 0, 0, 0)
    /\ fx = NoFetch /\ dg = NoDigest /\ hw = NoHourly
    /\ px \in [done : {FALSE}, script : PostScripts, getScript : ProcGetScripts]
    /\ InitCommon
\* One call of push_to_feishu, and the attempts of one fetch beside it.
PushStep ==
    /\ ~px.done
    /\ px' = [done |-> TRUE, script |-> px.script, getScript |-> px.getScript,
              r |-> PushToFeishu(px.script),
              getAttempts |-> RequestWithRetry(px.getScript).attempts]
    /\ UNCHANGED << config, argv, pc, now, starts, ticks, rain_active,
                    last_daily_push_date, tk, instPushes, instAttempts,
                    instFailed, procPushes, qualRun, runAlerts, hist,
                    episodeLen, episodeAlerts, testPushes, testOutcome,
                    fx, dg, hw >>
NextPush == PushStep
SpecPush == InitPush /\ [][NextPush]_vars

\* C1: within one WeatherMonitor instance, whatever the tick times and the
\* fetch and push outcomes, _handle_daily_push calls push_to_feishu at most
\* once per calendar date, also when several ticks fall inside the trigger
\* minute of that date.
C1_OneDigestPushPerDate == \A d \in Dates : instPushes[d] <= 1
\* A second tick inside the trigger minute of a date whose digest was pushed.
C1_Witness ==
    /\ tk.valid /\ DailyMinute(tk.start, config)
    /\ tk.startLast = DateOf(tk.start)
    /\ ~tk.dFired
    /\ instPushes[DateOf(tk.start)] = 1

\* C2: consecutive rain checks that each detect a qualifying hour, starting
\* from rain_active = FALSE, push exactly one alert, on the first of them,
\* and leave rain_active = TRUE; a tick that starts with rain_active = TRUE
\* pushes no alert.
C2_OneAlertWhileQualifying ==
    /\ qualRun >= 1 => runAlerts = 1 /\ rain_active
    /\ tk.valid /\ tk.startActive => tk.rPushed = 0
\* Three or more qualifying checks in a row.
C2_Witness == qualRun >= 3 /\ runAlerts = 1 /\ tk.startActive /\ tk.rDetected

\* C3: a rain check that detects no qualifying hour leaves rain_active FALSE
\* whatever it was and pushes nothing; a qualifying, a non-qualifying and a
\* qualifying check in a row, from rain_active = FALSE, push two alerts.
C3_Rearm ==
    /\ tk.valid /\ tk.rChecked /\ ~tk.rDetected => ~rain_active /\ tk.rPushed = 0
    /\ ( /\ Len(hist) = 3
         /\ hist[1].q /\ ~hist[1].active0 /\ ~hist[2].q /\ hist[3].q )
       => hist[1].pushed + hist[2].pushed + hist[3].pushed = 2
\* The three checks happened; the middle one found the flag set.
C3_Witness ==
    /\ Len(hist) = 3
    /\ hist[1].q /\ ~hist[1].active0
    /\ ~hist[2].q /\ hist[2].active0
    /\ hist[3].q /\ hist[3].pushed = 1

\* C4: over a run of rain checks during which the provider's 6-hour forecast
\* always holds a qualifying hour, at most one alert is pushed, also when
\* some of the hourly fetches fail.
C4_OneAlertPerEpisode == episodeAlerts <= 1

\* C5: over the whole process, restarts by main() included, the digest is
\* pushed at most once per calendar date.
C5_OneDigestPerDateInProcess == \A d \in Dates : procPushes[d] <= 1

\* C6: when the daily trigger fires and the fetch fails, nothing is pushed
\* and last_daily_push_date keeps its value; when the fetch gives forecast
\* records and the push returns, True or False, there was one push and
\* last_daily_push_date is today; after a failed fetch the instance makes
\* no second digest attempt on that date.
C6_DigestOutcome ==
    /\ tk.valid /\ tk.dFired /\ tk.dFetch = "failed"
          => tk.dPushed = 0 /\ tk.dLast = tk.startLast
    /\ tk.valid /\ tk.dFired /\ tk.dFetch = "ok" /\ ~tk.dRaised
          => tk.dPushed = 1 /\ tk.dLast = DateOf(tk.start)
    /\ tk.valid /\ ~tk.crashed /\ pc = "run" => last_daily_push_date = tk.dLast
    /\ \A d \in instFailed : instAttempts[d] = 1
\* A later tick of the instance on the date of a failed digest fetch.
C6_Witness ==
    /\ pc = "run" /\ tk.valid /\ ~tk.dFired
    /\ DateOf(tk.start) \in instFailed
    /\ instAttempts[DateOf(tk.start)] = 1
    /\ last_daily_push_date = NoDate
\* A digest whose push returned False.
C6_WitnessPushFailed ==
    /\ tk.valid /\ tk.dPushed = 1 /\ ~tk.dRaised /\ ~tk.dPushRet
    /\ last_daily_push_date = DateOf(tk.start)

\* C7: on every tick whose minute is a multiple of check_interval_minutes
\* the rain check (fetch, classification, hysteresis update) is done in that
\* tick whatever the daily trigger did: not fired, fired and pushed, fired
\* with a failed fetch, or fired and raised on a malformed forecast record.
\* (A digest whose push itself raised is left out, and so is a rain check
\* whose own hourly data or push raised.)
C7_RainCheckEveryDueTick ==
    tk.valid /\ tk.rDue /\ ~tk.rRaised /\ ~(tk.dRaised /\ tk.dPushed = 1)
        => tk.rChecked

\* C8: sleep_seconds is k*60 - s for the smallest k in 1..c with
\* (m + k) mod c = 0; it is positive; a tick on a boundary sleeps a whole
\* interval less s; the next tick starts in a later wall-clock minute.
SmallestK(m, c) ==
    CHOOSE k \in 1..c :
        (m + k) % c = 0 /\ \A j \in 1..(k - 1) : (m + j) % c # 0
C8_SleepToNextBoundary ==
    tk.valid /\ ~tk.dRaised /\ ~tk.rRaised =>
        LET m == MinuteOf(tk.start)
            s == SecondOf(tk.start)
            c == config.check_interval_minutes
        IN  /\ tk.sleep = SmallestK(m, c) * 60 - s
            /\ tk.sleep > 0
            /\ (m % c = 0 => tk.sleep = c * 60 - s)
            /\ pc = "run"
            /\ now = tk.start + tk.elapsed + tk.sleep
            /\ MinuteIndex(now) > MinuteIndex(tk.start)
\* A tick on a boundary, in the last second of its minute.
C8_Witness ==
    /\ tk.valid /\ pc = "run"
    /\ config.check_interval_minutes = 7
    /\ MinuteOf(tk.start) = 56 /\ SecondOf(tk.start) = 59
    /\ tk.sleep = 361

\* C9: a forecast fetch makes another GET after every failed attempt, a
\* provider code other than "200" included, until an attempt succeeds or
\* MaxRetry attempts were made, and returns the first successful result.
FirstSuccess(script) ==
    IF \E i \in 1..MaxRetry : script[i] = "code_200"
    THEN CHOOSE i \in 1..MaxRetry :
            script[i] = "code_200" /\ \A j \in 1..(i - 1) : script[j] # "code_200"
    ELSE 0
C9_EveryFailureRetried ==
    fx.call # "none" =>
        IF FirstSuccess(fx.script) > 0
        THEN fx.ok /\ fx.attempts = FirstSuccess(fx.script)
        ELSE ~fx.ok /\ fx.attempts = MaxRetry

\* C10: outside test mode every configuration failure at startup, a missing
\* option or a malformed value, makes the process exit without restart.
C10_ConfigFailureIsFatal ==
    argv = "run" /\ starts >= 1 /\ LoadConfig(config) # "loaded" => pc = "exited"

\* C11 as claimed: in test mode main() ends after one pass with exactly one
\* call of run_test_push and no tick of run(), whether the push succeeded,
\* returned False or raised, a configuration error included.
C11_TestModeOnePushAlways ==
    argv = "test" /\ starts >= 1 =>
        pc = "exited" /\ starts = 1 /\ ticks = 0 /\ testPushes = 1
\* C11 amended: in test mode main() ends after one pass of its loop with no
\* tick of run() and no restart; run_test_push is called exactly once when
\* the monitor was built and not at all when the constructor raised.
C11_TestModeTerminates ==
    argv = "test" /\ starts >= 1 =>
        /\ pc = "exited" /\ starts = 1 /\ ticks = 0
        /\ testPushes = IF LoadConfig(config) = "loaded" THEN 1 ELSE 0
\* A test push that raised and ended the process.
C11_Witness ==
    argv = "test" /\ pc = "exited" /\ testOutcome = "raised" /\ testPushes = 1

\* C12: the title of the digest is determined by the severe-day set and the
\* rain-day set, severe first: the severe title whenever the severe-day set
\* is non-empty, a rain-suffixed title only when the severe-day set is empty
\* and the rain-day set is not, the plain title only when both are empty.
C12_TitleSevereFirst ==
    dg.done =>
        LET S == SetOf(dg.digest.severe_days_indices)
            R == SetOf(dg.digest.rain_days_indices)
            t == dg.digest.title
        IN /\ S # {} => t = SevereTitle
           /\ S = {} /\ R # {} =>
                 t[1] = "warning" /\ t[3] = RainSuffix(R) /\ t # SevereTitle
           /\ S = {} /\ R = {} => t = PlainTitle
           /\ t = PlainTitle => S = {} /\ R = {}
           /\ t # SevereTitle /\ t # PlainTitle => S = {} /\ R # {}
\* A digest with severe days and rain days at once.
C12_Witness ==
    /\ dg.done
    /\ SetOf(dg.digest.severe_days_indices) = {1}
    /\ SetOf(dg.digest.rain_days_indices) = {0, 2}
    /\ dg.digest.title = SevereTitle

\* C13: with no severe day, each of the seven non-empty sets of rain-day
\* offsets gives a non-empty suffix of its own, different from the suffix of
\* every other set, and never the plain title.
C13_SuffixTotalAndExact ==
    dg.done /\ SetOf(dg.digest.severe_days_indices) = {}
            /\ SetOf(dg.digest.rain_days_indices) # {} =>
        LET R == SetOf(dg.digest.rain_days_indices)
            t == dg.digest.title
        IN /\ R \in SUBSET {0, 1, 2}
           /\ t # PlainTitle /\ t[1] = "warning"
           /\ t[3] # ""
           /\ \A R2 \in (SUBSET {0, 1, 2}) \ {{}, R} : RainSuffix(R2) # t[3]
\* Rain today and the day after, nothing severe.
C13_Witness ==
    /\ dg.done
    /\ SetOf(dg.digest.severe_days_indices) = {}
    /\ SetOf(dg.digest.rain_days_indices) = {0, 2}
    /\ dg.digest.title = RainTitle("-jin hou tian you yu")

\* C16: whenever a forecast day satisfies the rain condition and none the
\* severe condition the title is a warning title with a rain suffix, and
\* whenever the body has a rain section or a severe-weather section the title
\* is not the plain title; days dated outside today..the day after included.
C16_SectionImpliesWarningTitle ==
    dg.done =>
        LET data == dg.forecast_data
            anyRain == \E i \in 1..Len(data) : IsRain(data[i])
            anySevere == \E i \in 1..Len(data) : IsSevere(data[i])
            t == dg.digest.title
        IN /\ anyRain /\ ~anySevere =>
                 t[1] = "warning" /\ t[3] # "" /\ t # PlainTitle
           /\ dg.digest.rain_section # <<>> \/ dg.digest.severe_section # <<>>
                 => t # PlainTitle

\* C14: get_hourly_weather keeps exactly the records whose forecast time t
\* satisfies now <= t < now + 6h: a record at exactly now is kept and a
\* record at exactly now + 6h is dropped.
C14_HalfOpenWindow ==
    hw.done /\ ~hw.hourly.raised =>
        LET HalfOpen(item) ==
                now <= FxTime(item) /\ FxTime(item) < now + WindowHours * 3600
            kept == SelectSeq(hw.payload, HalfOpen)
        IN hw.hourly.list = [i \in 1..Len(kept) |-> HourlyRecord(kept[i])]

\* C15: on a rain onset tick the detected records are exactly the records of
\* the window whose text contains a severe-rain keyword (light rain and
\* shower do not count), the alert names the time label of the earliest of
\* them and lists all of them and no other, and rain_active becomes true.
C15_OnsetAlertContent ==
    hw.done /\ ~hw.active /\ hw.r.detected /\ ~hw.r.raised =>
        LET Strict(item) ==
                /\ InWindow(item, now)
                /\ \E k \in { <<"zhong", "yu">>, <<"da", "yu">>, <<"bao", "yu">>,
                              <<"ji", "duan", "jiang", "yu">> } :
                      Contains(k, item.text)
            qual == SelectSeq(hw.payload, Strict)
            first == CHOOSE i \in 1..Len(qual) :
                        \A j \in 1..Len(qual) : FxTime(qual[i]) <= FxTime(qual[j])
        IN /\ qual # <<>>
           /\ \A i \in 1..Len(qual) :
                 qual[i].text # LightRain /\ qual[i].text # Shower
           /\ hw.r.pushed = 1
           /\ hw.r.alert.rain_start_time = TimeLabel(FxTime(qual[first]))
           /\ hw.r.alert.hourly_lines =
                 [i \in 1..Len(qual) |-> HourlyRecord(qual[i])]
           /\ hw.r.rain_active
\* Light rain at 15:00, moderate rain at 16:00, light rain at 17:00: one
\* alert naming 16:00 that lists the 16:00 record alone.
C15_Witness ==
    /\ hw.done /\ ~hw.active /\ now = At(0, 14, 0, 0)
    /\ hw.payload = << MkHourly(TRUE, At(0, 15, 0, 0), 8, LightRain, TRUE, 30),
                       MkHourly(TRUE, At(0, 16, 0, 0), 8, ModerateRain, TRUE, 80),
                       MkHourly(TRUE, At(0, 17, 0, 0), 8, LightRain, TRUE, 30) >>
    /\ hw.r.pushed = 1
    /\ hw.r.alert = [rain_start_time |-> <<16, 0>>,
                     hourly_lines |-> << [time |-> <<16, 0>>,
                                          text |-> ModerateRain, pop |-> 80] >>]
    /\ hw.r.rain_active

\* C17: on every date on which an instance runs from before the configured
\* push minute to after it, a tick of run() starts inside that minute: when
\* the latest tick started before the minute, the next one does not start
\* after it.
C17_TickInsidePushMinute ==
    \A d \in 0..(MaxDate + 1) :
        LET T == At(d, config.daily_push_hour, config.daily_push_minute, 0) IN
        pc = "run" /\ tk.valid /\ ~tk.crashed /\ tk.start < T => now < T + 60

\* C18: every tick of run() other than the first after a start begins in a
\* minute m with m mod check_interval_minutes = 0, so that the rain check is
\* due on it.
C18_TicksAligned ==
    pc = "run" /\ tk.valid /\ ~tk.crashed =>
        MinuteOf(now) % config.check_interval_minutes = 0

\* C19: after the push of a rain onset returned, True or False, rain_active
\* is true; and after an onset push that returned False no alert is pushed
\* on the following checks that still detect rain.
C19_ActiveAfterOnsetPush ==
    /\ pc = "run" /\ tk.valid /\ ~tk.crashed /\ tk.rChecked /\ tk.rPushed = 1
          => rain_active
    /\ \A i \in 1..Len(hist) :
          hist[i].pushed = 1 /\ ~hist[i].ret =>
              \A j \in (i + 1)..Len(hist) :
                  (\A k \in (i + 1)..j : hist[k].q) => hist[j].pushed = 0
\* An onset push that failed, then two checks that detect rain and stay silent.
C19_Witness ==
    /\ Len(hist) = 3 /\ rain_active
    /\ hist[1].pushed = 1 /\ ~hist[1].ret /\ ~hist[1].active0
    /\ hist[2].q /\ hist[2].pushed = 0
    /\ hist[3].q /\ hist[3].pushed = 0

\* C20: push_to_feishu makes at most MaxRetry POST attempts; it returns True
\* at the first attempt answered with status zero and makes no attempt after
\* it; a transport error, a non-2xx status and a non-zero status field each
\* lead to the next attempt; it returns False exactly when all MaxRetry
\* attempts failed; a fetch makes at most MaxRetry attempts too.
C20_BoundedPushRetry ==
    px.done =>
        LET Failed(i) ==
                px.script[i] \in {"transport_error", "http_error", "status_nonzero"}
            n == px.r.attempts
        IN /\ n \in 1..MaxRetry
           /\ px.getAttempts \in 1..MaxRetry
           /\ \A i \in 1..(n - 1) : Failed(i)
           /\ px.r.ret <=> px.script[n] = "status_zero"
           /\ ~px.r.raised =>
                 (~px.r.ret <=> \A i \in 1..MaxRetry : Failed(i))
           /\ ~px.r.raised /\ ~px.r.ret => n = MaxRetry
\* Success at the third attempt after a transport error and a non-zero
\* status, with answers left unused.
C20_Witness ==
    /\ px.done /\ px.r.ret /\ px.r.attempts = 3
    /\ px.script[1] = "transport_error" /\ px.script[2] = "status_nonzero"
    /\ px.script[4] = "status_nonzero"

====
